---- MODULE Spec2Model ----
(***************************************************************************)
(* gox platform resolution: the platform catalog (platform.go: addDrop,    *)
(* the Platforms_1_x tables, SupportedPlatforms) and the platform filter   *)
(* (PlatformFlag.Platforms and the flag.Value Set methods).                *)
(*                                                                         *)
(* A Go string is a sequence of one-character strings, so that indexing    *)
(* (v[0]), slicing (v[1:]), strings.Split, strings.ToLower and the         *)
(* "%s/%s" formatting of Platform.String are computed, not assumed.        *)
(***************************************************************************)
EXTENDS Integers, Sequences, FiniteSets, TLC

VARIABLES
    p,          \* the PlatformFlag: [OS, Arch, OSArch]
    supported,  \* the snapshot handed to PlatformFlag.Platforms
    result,     \* the slice returned by PlatformFlag.Platforms
    outcome,    \* "none" before the call, then "ok" or "panic"
    err,        \* what the last Set call returned: "nil" or "error"
    rejected,   \* whether some Set call so far returned an error
    base,       \* addDrop's first argument
    add,        \* addDrop's second argument
    drop,       \* addDrop's third argument
    out,        \* the slice returned by addDrop
    adPc,       \* "call" before addDrop ran, "done" after
    v,          \* the version string given to SupportedPlatforms
    ret,        \* [plat, site]: the snapshot returned and the return statement taken
    svPc        \* "call" before SupportedPlatforms ran, "done" after

vars == <<p, supported, result, outcome, err, rejected, base, add, drop, out, adPc, v, ret, svPc>>

----------------------------------------------------------------------------
(* Go strings *)

Range(s) == {s[i] : i \in DOMAIN s}

UpperCase == <<"A","B","C","D","E","F","G","H","I","J","K","L","M",
               "N","O","P","Q","R","S","T","U","V","W","X","Y","Z">>

LowerCase == <<"a","b","c","d","e","f","g","h","i","j","k","l","m",
               "n","o","p","q","r","s","t","u","v","w","x","y","z">>

\* strings.ToLower, one character
LowerChar(c) ==
    IF \E i \in DOMAIN UpperCase : UpperCase[i] = c
    THEN LowerCase[CHOOSE i \in DOMAIN UpperCase : UpperCase[i] = c]
    ELSE c

\* strings.ToLower
ToLower(s) == [i \in 1..Len(s) |-> LowerChar(s[i])]

\* strings.Split(s, sep) for a one-character separator: always at least one part
RECURSIVE Split(_, _)
Split(s, sep) ==
    IF \A i \in 1..Len(s) : s[i] # sep
    THEN <<s>>
    ELSE LET i == CHOOSE k \in 1..Len(s) :
                      s[k] = sep /\ \A j \in 1..(k-1) : s[j] # sep
         IN  <<SubSeq(s, 1, i-1)>> \o Split(SubSeq(s, i+1, Len(s)), sep)

\* strings.HasPrefix
HasPrefix(s, prefix) ==
    Len(s) >= Len(prefix) /\ SubSeq(s, 1, Len(prefix)) = prefix

\* every sequence that lists the elements of S once each: the orders in which Go
\* may range over a map whose keys (or values) are S
MapOrders(S) ==
    {s \in [1..Cardinality(S) -> S] : \A i, j \in 1..Cardinality(S) : s[i] = s[j] => i = j}

\* the slice that the appends of a loop build: the concatenation, in order, of
\* what each round of the loop appends
RECURSIVE Concat(_)
Concat(rounds) ==
    IF rounds = <<>> THEN <<>> ELSE Head(rounds) \o Concat(Tail(rounds))

----------------------------------------------------------------------------
(* OS and architecture names of platform.go *)

darwin    == <<"d","a","r","w","i","n">>
linux     == <<"l","i","n","u","x">>
freebsd   == <<"f","r","e","e","b","s","d">>
openbsd   == <<"o","p","e","n","b","s","d">>
netbsd    == <<"n","e","t","b","s","d">>
windows   == <<"w","i","n","d","o","w","s">>
plan9     == <<"p","l","a","n","9">>
dragonfly == <<"d","r","a","g","o","n","f","l","y">>
nacl      == <<"n","a","c","l">>
solaris   == <<"s","o","l","a","r","i","s">>
android   == <<"a","n","d","r","o","i","d">>
js        == <<"j","s">>
aix       == <<"a","i","x">>
illumos   == <<"i","l","l","u","m","o","s">>

i386     == <<"3","8","6">>
amd64    == <<"a","m","d","6","4">>
arm      == <<"a","r","m">>
arm64    == <<"a","r","m","6","4">>
amd64p32 == <<"a","m","d","6","4","p","3","2">>
ppc64    == <<"p","p","c","6","4">>
ppc64le  == <<"p","p","c","6","4","l","e">>
mips64   == <<"m","i","p","s","6","4">>
mips64le == <<"m","i","p","s","6","4","l","e">>
mips     == <<"m","i","p","s">>
mipsle   == <<"m","i","p","s","l","e">>
s390x    == <<"s","3","9","0","x">>
wasm     == <<"w","a","s","m">>
riscv64  == <<"r","i","s","c","v","6","4">>
loong64  == <<"l","o","o","n","g","6","4">>

----------------------------------------------------------------------------
(* Platform and addDrop *)

\* type Platform struct { OS, Arch string; Default bool }
Platform(os, arch, default) == [OS |-> os, Arch |-> arch, Default |-> default]

\* func (p *Platform) String(): fmt.Sprintf("%s/%s", p.OS, p.Arch)
String(platform) == platform.OS \o <<"/">> \o platform.Arch

\* the entries of a list whose key is not in dropMap: what the loops over base
\* and over add let through (if !dropMap[key])
NotDropped(list, dropMap) ==
    LET kept(platform) == String(platform) \notin dropMap
    IN  SelectSeq(list, kept)

\* dropMap of addDrop: the keys of the drop list
DropMap(dropList) == {String(dropList[i]) : i \in DOMAIN dropList}

\* the first assignment under a key kept, later ones lost
StoredFirst(entries, key) ==
    entries[CHOOSE i \in DOMAIN entries :
                /\ String(entries[i]) = key
                /\ \A j \in DOMAIN entries : String(entries[j]) = key => i <= j]

\* platformMap[key] after the assignments platformMap[key] = platform for the
\* entries in order: the last assignment under the key
Stored(entries, key) ==
    entries[CHOOSE i \in DOMAIN entries :
                /\ String(entries[i]) = key
                /\ \A j \in DOMAIN entries : String(entries[j]) = key => j <= i]

\* platformMap of addDrop after the loop over base and the loop over add, as the
\* list of its values in the order their keys were first inserted
PlatformMap(baseList, addList, dropList) ==
    LET entries == NotDropped(baseList, DropMap(dropList))
                       \o NotDropped(addList, DropMap(dropList))
        inserts == {i \in DOMAIN entries :
                       \A j \in 1..(i-1) : String(entries[j]) # String(entries[i])}
        nth(k)  == CHOOSE i \in inserts : Cardinality({j \in inserts : j <= i}) = k
    IN  [k \in 1..Cardinality(inserts) |-> Stored(entries, String(entries[nth(k)]))]

\* addDrop with the map ranged over in insertion order (Go leaves the order open;
\* AddDropResults gives every order)
addDrop(baseList, addList, dropList) == PlatformMap(baseList, addList, dropList)

\* every slice addDrop can return
AddDropResults(baseList, addList, dropList) ==
    MapOrders(Range(PlatformMap(baseList, addList, dropList)))

----------------------------------------------------------------------------
(* The snapshot tables of platform.go *)

Platforms_1_0 ==
    <<
        Platform(darwin, i386, TRUE),
        Platform(darwin, amd64, TRUE),
        Platform(linux, i386, TRUE),
        Platform(linux, amd64, TRUE),
        Platform(linux, arm, TRUE),
        Platform(freebsd, i386, TRUE),
        Platform(freebsd, amd64, TRUE),
        Platform(openbsd, i386, TRUE),
        Platform(openbsd, amd64, TRUE),
        Platform(windows, i386, TRUE),
        Platform(windows, amd64, TRUE) >>

Platforms_1_1 ==
    addDrop(Platforms_1_0,
        <<
            Platform(freebsd, arm, TRUE),
            Platform(netbsd, i386, TRUE),
            Platform(netbsd, amd64, TRUE),
            Platform(netbsd, arm, TRUE),
            Platform(plan9, i386, FALSE) >>,
        <<>>)

Platforms_1_3 ==
    addDrop(Platforms_1_1,
        <<
            Platform(dragonfly, i386, FALSE),
            Platform(dragonfly, amd64, FALSE),
            Platform(nacl, amd64, FALSE),
            Platform(nacl, amd64p32, FALSE),
            Platform(nacl, arm, FALSE),
            Platform(solaris, amd64, FALSE) >>,
        <<>>)

Platforms_1_4 ==
    addDrop(Platforms_1_3,
        <<
            Platform(android, arm, FALSE),
            Platform(plan9, amd64, FALSE) >>,
        <<>>)

Platforms_1_5 ==
    addDrop(Platforms_1_4,
        <<
            Platform(darwin, arm, FALSE),
            Platform(darwin, arm64, FALSE),
            Platform(linux, arm64, FALSE),
            Platform(linux, ppc64, FALSE),
            Platform(linux, ppc64le, FALSE) >>,
        <<>>)

Platforms_1_6 ==
    addDrop(Platforms_1_5,
        <<
            Platform(android, i386, FALSE),
            Platform(android, amd64, FALSE),
            Platform(linux, mips64, FALSE),
            Platform(linux, mips64le, FALSE),
            Platform(nacl, i386, FALSE),
            Platform(openbsd, arm, TRUE) >>,
        <<>>)

Platforms_1_7 ==
    addDrop(Platforms_1_5,
        <<
            Platform(linux, s390x, TRUE),
            Platform(plan9, arm, FALSE),
            Platform(android, i386, FALSE),
            Platform(android, amd64, FALSE),
            Platform(linux, mips64, TRUE),
            Platform(linux, mips64le, TRUE),
            Platform(nacl, i386, FALSE),
            Platform(openbsd, arm, TRUE) >>,
        <<>>)

Platforms_1_8 ==
    addDrop(Platforms_1_7,
        <<
            Platform(linux, mips, TRUE),
            Platform(linux, mipsle, TRUE) >>,
        <<>>)

Platforms_1_9 == Platforms_1_8

Platforms_1_10 ==
    addDrop(Platforms_1_9,
        <<>>,
        <<
            Platform(android, amd64, FALSE) >>)

Platforms_1_11 ==
    addDrop(Platforms_1_10,
        <<
            Platform(js, wasm, TRUE) >>,
        <<>>)

Platforms_1_12 ==
    addDrop(Platforms_1_11,
        <<
            Platform(aix, ppc64, FALSE),
            Platform(windows, arm, TRUE) >>,
        <<>>)

Platforms_1_13 ==
    addDrop(Platforms_1_12,
        <<
            Platform(illumos, amd64, FALSE),
            Platform(netbsd, arm64, TRUE),
            Platform(openbsd, arm64, TRUE) >>,
        <<>>)

Platforms_1_14 ==
    addDrop(Platforms_1_13,
        <<
            Platform(freebsd, arm64, TRUE),
            Platform(linux, riscv64, TRUE) >>,
        <<
            Platform(nacl, i386, FALSE),
            Platform(nacl, amd64, FALSE),
            Platform(nacl, arm, FALSE) >>)

Platforms_1_15 ==
    addDrop(Platforms_1_14,
        <<
            Platform(android, arm64, FALSE) >>,
        <<
            Platform(darwin, i386, FALSE) >>)

Platforms_1_16 ==
    addDrop(Platforms_1_15,
        <<
            Platform(android, amd64, FALSE),
            Platform(darwin, arm64, TRUE),
            Platform(openbsd, mips64, FALSE) >>,
        <<>>)

Platforms_1_17 ==
    addDrop(Platforms_1_16,
        <<
            Platform(windows, arm64, TRUE) >>,
        <<>>)

Platforms_1_18 == Platforms_1_17

Platforms_1_19 ==
    addDrop(Platforms_1_18,
        <<
            Platform(linux, loong64, TRUE) >>,
        <<>>)

Platforms_1_20 ==
    addDrop(Platforms_1_19,
        <<
            Platform(freebsd, riscv64, TRUE) >>,
        <<>>)

Platforms_1_21 ==
    addDrop(Platforms_1_20,
        <<
            Platform(android, i386, FALSE),
            Platform(android, arm, FALSE) >>,
        <<>>)

Platforms_1_22 ==
    addDrop(Platforms_1_21,
        <<>>,
        <<>>)

Platforms_1_23 == Platforms_1_22

PlatformsLatest == Platforms_1_23

----------------------------------------------------------------------------
(* SupportedPlatforms *)

Digits == <<"0","1","2","3","4","5","6","7","8","9">>

IsDigit(c) == \E i \in DOMAIN Digits : Digits[i] = c

DigitVal(c) == (CHOOSE i \in DOMAIN Digits : Digits[i] = c) - 1

\* the number a run of decimal digits denotes
RECURSIVE Atoi(_)
Atoi(s) ==
    IF s = <<>> THEN 0
    ELSE Atoi(SubSeq(s, 1, Len(s) - 1)) * 10 + DigitVal(s[Len(s)])

\* segments padded with zeros to at least three, as go-version stores them
Pad3(segments) ==
    [i \in 1..(IF Len(segments) < 3 THEN 3 ELSE Len(segments)) |->
        IF i <= Len(segments) THEN segments[i] ELSE 0]

\* version.NewVersion on a string of digits, dots and letters: an optional "v",
\* then one or more dot-separated runs of digits; anything else is an error.
\* (Pre-release and metadata suffixes, which go-version also accepts after the
\* digits, are outside the strings this model feeds it.)
NewVersion(s) ==
    LET body  == IF s # <<>> /\ Head(s) = "v" THEN Tail(s) ELSE s
        parts == Split(body, ".")
        valid == \A i \in DOMAIN parts :
                     parts[i] # <<>> /\ \A c \in Range(parts[i]) : IsDigit(c)
    IN  IF valid
        THEN [err |-> FALSE, segments |-> Pad3([i \in DOMAIN parts |-> Atoi(parts[i])])]
        ELSE [err |-> TRUE, segments |-> <<>>]

\* Version.Compare on numeric versions: -1, 0 or 1, segment by segment
Compare(a, b) ==
    LET n     == IF Len(a) < Len(b) THEN Len(b) ELSE Len(a)
        at(x, i) == IF i <= Len(x) THEN x[i] ELSE 0
        diff  == {i \in 1..n : at(a, i) # at(b, i)}
    IN  IF diff = {} THEN 0
        ELSE LET i == CHOOSE k \in diff : \A j \in diff : k <= j
             IN  IF at(a, i) < at(b, i) THEN -1 ELSE 1

\* one comparison of a constraint string, such as ">= 1.1"
Cmp(op, major, minor) == [op |-> op, check |-> Pad3(<<major, minor>>)]

\* Constraints.Check: every comparison of the constraint holds of the version
Check(constraint, current) ==
    \A i \in DOMAIN constraint :
        LET c == Compare(current, constraint[i].check)
        IN  CASE constraint[i].op = "<=" -> c <= 0
              [] constraint[i].op = ">=" -> c >= 0
              [] constraint[i].op = "<"  -> c < 0

Rung(constraint, plat) == [constraint |-> constraint, plat |-> plat]

\* the first entry with the constraint "= 1.0": releases before 1.0 match nothing
oldestRungExact == Rung(<<Cmp(">=", 1, 0), Cmp("<=", 1, 0)>>, Platforms_1_0)

\* {"<= 1.0", Platforms_1_0}, the first entry of platforms
oldestRung == Rung(<<Cmp("<=", 1, 0)>>, Platforms_1_0)

\* var platforms = []struct{ constraint string; plat []Platform }
platforms ==
    << oldestRung,
       Rung(<<Cmp(">=", 1, 1), Cmp("<", 1, 3)>>, Platforms_1_1),
       Rung(<<Cmp(">=", 1, 3), Cmp("<", 1, 4)>>, Platforms_1_3),
       Rung(<<Cmp(">=", 1, 4), Cmp("<", 1, 5)>>, Platforms_1_4),
       Rung(<<Cmp(">=", 1, 5), Cmp("<", 1, 6)>>, Platforms_1_5),
       Rung(<<Cmp(">=", 1, 6), Cmp("<", 1, 7)>>, Platforms_1_6),
       Rung(<<Cmp(">=", 1, 7), Cmp("<", 1, 8)>>, Platforms_1_7),
       Rung(<<Cmp(">=", 1, 8), Cmp("<", 1, 9)>>, Platforms_1_8),
       Rung(<<Cmp(">=", 1, 9), Cmp("<", 1, 10)>>, Platforms_1_9),
       Rung(<<Cmp(">=", 1, 10), Cmp("<", 1, 11)>>, Platforms_1_10),
       Rung(<<Cmp(">=", 1, 11), Cmp("<", 1, 12)>>, Platforms_1_11),
       Rung(<<Cmp(">=", 1, 12), Cmp("<", 1, 13)>>, Platforms_1_12),
       Rung(<<Cmp(">=", 1, 13), Cmp("<", 1, 14)>>, Platforms_1_13),
       Rung(<<Cmp(">=", 1, 14), Cmp("<", 1, 15)>>, Platforms_1_14),
       Rung(<<Cmp(">=", 1, 15), Cmp("<", 1, 16)>>, Platforms_1_15),
       Rung(<<Cmp(">=", 1, 16), Cmp("<", 1, 17)>>, Platforms_1_16),
       Rung(<<Cmp(">=", 1, 17), Cmp("<", 1, 18)>>, Platforms_1_17),
       Rung(<<Cmp(">=", 1, 18), Cmp("<", 1, 19)>>, Platforms_1_18),
       Rung(<<Cmp(">=", 1, 19), Cmp("<", 1, 20)>>, Platforms_1_19),
       Rung(<<Cmp(">=", 1, 20), Cmp("<", 1, 21)>>, Platforms_1_20),
       Rung(<<Cmp(">=", 1, 21), Cmp("<", 1, 22)>>, Platforms_1_21),
       Rung(<<Cmp(">=", 1, 22), Cmp("<", 1, 23)>>, Platforms_1_22),
       Rung(<<Cmp(">=", 1, 23)>>, Platforms_1_23) >>

go == <<"g","o">>

\* func SupportedPlatforms(v string) []Platform: the snapshot returned and the
\* line of the return statement that returned it
SupportedPlatforms(vs) ==
    IF ~HasPrefix(vs, go)
    THEN [plat |-> PlatformsLatest, site |-> 221]
    ELSE LET current == NewVersion(SubSeq(vs, 3, Len(vs)))
             hits    == {i \in DOMAIN platforms : Check(platforms[i].constraint, current.segments)}
         IN  IF current.err
             THEN [plat |-> PlatformsLatest, site |-> 231]
             ELSE IF hits # {}
             THEN [plat |-> platforms[CHOOSE i \in hits : \A j \in hits : i <= j].plat,
                   site |-> 269]
             ELSE [plat |-> PlatformsLatest, site |-> 274]

----------------------------------------------------------------------------
(* PlatformFlag: the flag.Value Set methods *)

\* func (s *appendStringValue) appendIfMissing(value string), and
\* func (s *appendPlatformValue) appendIfMissing(value *Platform)
appendIfMissing(s, value) ==
    IF \E i \in DOMAIN s : s[i] = value THEN s ELSE Append(s, value)

\* the loop of appendStringValue.Set over the parts of the value
RECURSIVE StringSetLoop(_, _)
StringSetLoop(s, parts) ==
    IF parts = <<>> THEN s
    ELSE StringSetLoop(IF Head(parts) # <<>>
                       THEN appendIfMissing(s, ToLower(Head(parts)))
                       ELSE s,
                       Tail(parts))

\* func (s *appendStringValue) Set(value string) error: the list afterwards
\* (the error is always nil)
appendStringValueSet(s, value) == StringSetLoop(s, Split(value, " "))

\* the loop of appendPlatformValue.Set over the parts of the value: it returns
\* at the first malformed part, with what it appended before still appended
RECURSIVE PlatformSetLoop(_, _)
PlatformSetLoop(s, parts) ==
    IF parts = <<>> THEN [list |-> s, err |-> "nil"]
    ELSE LET pair == Split(Head(parts), "/")
         IN  IF Len(pair) # 2
             THEN [list |-> s, err |-> "error"]
             ELSE PlatformSetLoop(
                      appendIfMissing(s, Platform(ToLower(pair[1]), ToLower(pair[2]), FALSE)),
                      Tail(parts))

\* func (s *appendPlatformValue) Set(value string) error: the list afterwards
\* and the error returned
appendPlatformValueSet(s, value) ==
    IF value = <<>> THEN [list |-> s, err |-> "nil"]
    ELSE PlatformSetLoop(s, Split(value, " "))

----------------------------------------------------------------------------
(* PlatformFlag.Platforms *)

\* v[0] on an empty string is an index out of range: the three parse loops panic
\* when a token of Arch or OS, or the OS of a pair, is empty
Panics(f) ==
    \/ \E i \in DOMAIN f.Arch : f.Arch[i] = <<>>
    \/ \E i \in DOMAIN f.OS : f.OS[i] = <<>>
    \/ \E i \in DOMAIN f.OSArch : f.OSArch[i].OS = <<>>

Negated(list) == {list[i] : i \in {j \in DOMAIN list : Head(list[j]) = "!"}}

Plain(list) == {list[i] : i \in {j \in DOMAIN list : Head(list[j]) # "!"}}

ignoreArch(f) == {Tail(t) : t \in Negated(f.Arch)}

includeArch(f) == Plain(f.Arch)

ignoreOS(f) == {Tail(t) : t \in Negated(f.OS)}

includeOS(f) == Plain(f.OS)

ignoreOSArch(f) ==
    {String(Platform(Tail(f.OSArch[i].OS), f.OSArch[i].Arch, FALSE)) :
        i \in {j \in DOMAIN f.OSArch : Head(f.OSArch[j].OS) = "!"}}

\* includeOSArch with a pair whose Arch starts with "!" put in neither map
includeOSArchSkipsArchNegation(f) ==
    {String(f.OSArch[i]) : i \in {j \in DOMAIN f.OSArch :
        /\ Head(f.OSArch[j].OS) # "!"
        /\ ~(f.OSArch[j].Arch # <<>> /\ Head(f.OSArch[j].Arch) = "!")}}

includeOSArch(f) ==
    {String(f.OSArch[i]) : i \in {j \in DOMAIN f.OSArch : Head(f.OSArch[j].OS) # "!"}}

\* _, exists := supportedMap[key]
Exists(snapshot, key) == \E i \in DOMAIN snapshot : String(snapshot[i]) = key

\* supportedMap[key]: the last platform of the snapshot with that key
supportedMap(snapshot, key) ==
    snapshot[CHOOSE i \in DOMAIN snapshot :
                 /\ String(snapshot[i]) = key
                 /\ \A j \in DOMAIN snapshot : String(snapshot[j]) = key => j <= i]

\* platform.Default = false
Cleared(platform) == [platform EXCEPT !.Default = FALSE]

\* the first branch, the keys of includeOSArch ranged over in the given order
PairBranch(f, snapshot, order) ==
    LET one(key) == IF Exists(snapshot, key) /\ key \notin ignoreOSArch(f)
                    THEN <<Cleared(supportedMap(snapshot, key))>>
                    ELSE <<>>
    IN  Concat([i \in DOMAIN order |-> one(order[i])])

\* the second branch, includeOS and includeArch ranged over in the given orders
CrossBranch(snapshot, osOrder, archOrder) ==
    LET inner(os) ==
            LET one(arch) == IF Exists(snapshot, String(Platform(os, arch, FALSE)))
                             THEN <<Platform(os, arch, FALSE)>>
                             ELSE <<>>
            IN  Concat([i \in DOMAIN archOrder |-> one(archOrder[i])])
    IN  Concat([i \in DOMAIN osOrder |-> inner(osOrder[i])])

\* the third branch, includeOS ranged over in the given order
OSBranch(snapshot, osOrder) ==
    LET inner(os) ==
            LET one(platform) == IF platform.OS = os THEN <<Cleared(platform)>> ELSE <<>>
            IN  Concat([i \in DOMAIN snapshot |-> one(snapshot[i])])
    IN  Concat([i \in DOMAIN osOrder |-> inner(osOrder[i])])

\* the last branch with the Default flag not looked at
DefaultBranchAll(snapshot) ==
    LET one(platform) == <<Cleared(platform)>>
    IN  Concat([i \in DOMAIN snapshot |-> one(snapshot[i])])

\* the last branch: the Default platforms of the snapshot
DefaultBranch(snapshot) ==
    LET one(platform) == IF platform.Default THEN <<Cleared(platform)>> ELSE <<>>
    IN  Concat([i \in DOMAIN snapshot |-> one(snapshot[i])])

\* every value result can have when the exclusion pass starts
Candidates(f, snapshot) ==
    IF includeOSArch(f) # {}
    THEN {PairBranch(f, snapshot, order) : order \in MapOrders(includeOSArch(f))}
    ELSE IF includeOS(f) # {} /\ includeArch(f) # {}
    THEN {CrossBranch(snapshot, osOrder, archOrder) :
              osOrder \in MapOrders(includeOS(f)), archOrder \in MapOrders(includeArch(f))}
    ELSE IF includeOS(f) # {}
    THEN {OSBranch(snapshot, osOrder) : osOrder \in MapOrders(includeOS(f))}
    ELSE {DefaultBranch(snapshot)}

\* the exclusion pass with the individual excludes not looked at
KeepNoSingleExcludes(f, platform) ==
    /\ String(platform) \notin ignoreOSArch(f)
    /\ ~(includeOSArch(f) = {} /\ includeOS(f) # {} /\ platform.OS \notin includeOS(f))
    /\ ~(includeOSArch(f) = {} /\ includeArch(f) # {} /\ platform.Arch \notin includeArch(f))

\* the exclusion pass with the include re-check applied also under pair includes
KeepAlwaysRechecks(f, platform) ==
    /\ String(platform) \notin ignoreOSArch(f)
    /\ ~(platform.OS \in ignoreOS(f) \/ platform.Arch \in ignoreArch(f))
    /\ ~(includeOS(f) # {} /\ platform.OS \notin includeOS(f))
    /\ ~(includeArch(f) # {} /\ platform.Arch \notin includeArch(f))

\* the exclusion pass without the re-check of the Arch includes
KeepNoArchRecheck(f, platform) ==
    /\ String(platform) \notin ignoreOSArch(f)
    /\ ~(platform.OS \in ignoreOS(f) \/ platform.Arch \in ignoreArch(f))
    /\ ~(includeOSArch(f) = {} /\ includeOS(f) # {} /\ platform.OS \notin includeOS(f))

\* the exclusion pass: whether a platform of result goes into filteredResult
Keep(f, platform) ==
    /\ String(platform) \notin ignoreOSArch(f)
    /\ ~(platform.OS \in ignoreOS(f) \/ platform.Arch \in ignoreArch(f))
    /\ ~(includeOSArch(f) = {} /\ includeOS(f) # {} /\ platform.OS \notin includeOS(f))
    /\ ~(includeOSArch(f) = {} /\ includeArch(f) # {} /\ platform.Arch \notin includeArch(f))

\* func (p *PlatformFlag) Platforms(supported []Platform) []Platform: every slice
\* it can return when it does not panic
PlatformsResults(f, snapshot) ==
    LET keep(platform) == Keep(f, platform)
    IN  {SelectSeq(r, keep) : r \in Candidates(f, snapshot)}

----------------------------------------------------------------------------
(* Bounds and inputs *)

\* the most tokens the three lists of a PlatformFlag hold together
MaxTokens == 4

\* the longest base, add and drop lists given to addDrop
MaxBase == 2

MaxAdd == 2

MaxDrop == 1

\* the largest major, minor and patch numbers of the version strings
MaxMajor == 2

MaxMinor == 24

MaxPatch == 1

bang == <<"!">>

slash == <<"/">>

space == <<" ">>

dot == <<".">>

\* the lists over S of at most n entries
Lists(S, n) == UNION {[1..k -> S] : k \in 0..n}

\* the snapshot of the spec's examples, with one platform that is not a default
SnapshotExample ==
    << Platform(linux, amd64, TRUE),
       Platform(linux, arm, FALSE),
       Platform(darwin, amd64, TRUE) >>

\* the snapshots Platforms is called with
Snapshots == {SnapshotExample, Platforms_1_4}

\* values of the -os flag
OSValues ==
    { linux, darwin, bang \o linux, bang, <<>>,
      <<"L">> \o Tail(linux) \o space \o darwin }

\* values of the -arch flag
ArchValues ==
    { amd64, arm, bang \o arm, space \o <<"A","M","D","6","4">> }

\* values of the -osarch flag
OSArchValues ==
    { linux \o slash \o amd64,
      darwin \o slash \o amd64,
      bang \o darwin \o slash \o amd64,
      linux \o slash \o bang \o amd64,
      slash \o amd64,
      linux \o amd64,
      linux \o slash \o arm \o space \o linux \o amd64,
      <<>> }

\* the platforms of the lists given to addDrop
AddDropPlatforms ==
    {Platform(os, amd64, default) : os \in {linux, darwin}, default \in BOOLEAN}

\* the platforms of its drop list, written with Default false as in platform.go
DropPlatforms == {Platform(os, amd64, FALSE) : os \in {linux, darwin}}

\* the decimal digits of a natural number
RECURSIVE FmtInt(_)
FmtInt(n) ==
    IF n < 10 THEN <<Digits[n + 1]>>
    ELSE FmtInt(n \div 10) \o <<Digits[(n % 10) + 1]>>

nonsense == <<"n","o","n","s","e","n","s","e">>

\* the version strings SupportedPlatforms is called with
VersionStrings ==
    {go \o FmtInt(ma) : ma \in 0..MaxMajor}
    \cup {go \o FmtInt(ma) \o dot \o FmtInt(mi) : ma \in 0..MaxMajor, mi \in 0..MaxMinor}
    \cup {go \o FmtInt(ma) \o dot \o FmtInt(mi) \o dot \o FmtInt(pa) :
              ma \in 0..MaxMajor, mi \in 0..MaxMinor, pa \in 0..MaxPatch}
    \cup {FmtInt(1) \o dot \o FmtInt(mi) : mi \in {0, 5}}
    \cup {nonsense, go, go \o <<"t","i","p">>, go \o <<"1",".">>, go \o <<"1",".","x">>,
          go \o <<"v","1",".","5">>, <<>>}

----------------------------------------------------------------------------
(* The platform filter: flags are set, then Platforms is called once *)

EmptyFlag == [OS |-> <<>>, Arch |-> <<>>, OSArch |-> <<>>]

TokenCount(f) == Len(f.OS) + Len(f.Arch) + Len(f.OSArch)

FilterIdle ==
    /\ p = EmptyFlag
    /\ supported = <<>>
    /\ result = <<>>
    /\ outcome = "none"
    /\ err = "nil"
    /\ rejected = FALSE

AddDropIdle ==
    /\ base = <<>>
    /\ add = <<>>
    /\ drop = <<>>
    /\ out = <<>>
    /\ adPc = "idle"

VersionIdle ==
    /\ v = <<>>
    /\ ret = [plat |-> <<>>, site |-> 0]
    /\ svPc = "idle"

Init ==
    /\ p = EmptyFlag
    /\ supported \in Snapshots
    /\ result = <<>>
    /\ outcome = "none"
    /\ err = "nil"
    /\ rejected = FALSE
    /\ AddDropIdle
    /\ VersionIdle

\* p.OSFlagValue().Set(value)
OSFlagSet ==
    /\ outcome = "none"
    /\ \E value \in OSValues :
           LET f == [p EXCEPT !.OS = appendStringValueSet(p.OS, value)]
           IN  /\ TokenCount(f) <= MaxTokens
               /\ p' = f
    /\ err' = "nil"
    /\ UNCHANGED <<supported, result, outcome, rejected, base, add, drop, out, adPc, v, ret, svPc>>

\* p.ArchFlagValue().Set(value)
ArchFlagSet ==
    /\ outcome = "none"
    /\ \E value \in ArchValues :
           LET f == [p EXCEPT !.Arch = appendStringValueSet(p.Arch, value)]
           IN  /\ TokenCount(f) <= MaxTokens
               /\ p' = f
    /\ err' = "nil"
    /\ UNCHANGED <<supported, result, outcome, rejected, base, add, drop, out, adPc, v, ret, svPc>>

\* p.OSArchFlagValue().Set(value)
OSArchFlagSet ==
    /\ outcome = "none"
    /\ \E value \in OSArchValues :
           LET r == appendPlatformValueSet(p.OSArch, value)
               f == [p EXCEPT !.OSArch = r.list]
           IN  /\ TokenCount(f) <= MaxTokens
               /\ p' = f
               /\ err' = r.err
               /\ rejected' = (rejected \/ r.err = "error")
    /\ UNCHANGED <<supported, result, outcome, base, add, drop, out, adPc, v, ret, svPc>>

\* p.Platforms(supported)
PlatformsCall ==
    /\ outcome = "none"
    /\ IF Panics(p)
       THEN /\ outcome' = "panic"
            /\ result' = <<>>
       ELSE /\ outcome' = "ok"
            /\ \E r \in PlatformsResults(p, supported) : result' = r
    /\ UNCHANGED <<p, supported, err, rejected, base, add, drop, out, adPc, v, ret, svPc>>

Next ==
    \/ OSFlagSet
    \/ ArchFlagSet
    \/ OSArchFlagSet
    \/ PlatformsCall

Spec == Init /\ [][Next]_vars

----------------------------------------------------------------------------
(* addDrop called on small lists *)

InitAddDrop ==
    /\ base \in Lists(AddDropPlatforms, MaxBase)
    /\ add \in Lists(AddDropPlatforms, MaxAdd)
    /\ drop \in Lists(DropPlatforms, MaxDrop)
    /\ out = <<>>
    /\ adPc = "call"
    /\ FilterIdle
    /\ VersionIdle

\* out := addDrop(base, add, drop)
AddDropCall ==
    /\ adPc = "call"
    /\ \E r \in AddDropResults(base, add, drop) : out' = r
    /\ adPc' = "done"
    /\ UNCHANGED <<p, supported, result, outcome, err, rejected, base, add, drop, v, ret, svPc>>

NextAddDrop == AddDropCall

SpecAddDrop == InitAddDrop /\ [][NextAddDrop]_vars

----------------------------------------------------------------------------
(* SupportedPlatforms called on a version string *)

InitVersion ==
    /\ v \in VersionStrings
    /\ ret = [plat |-> <<>>, site |-> 0]
    /\ svPc = "call"
    /\ FilterIdle
    /\ AddDropIdle

\* ret := SupportedPlatforms(v)
SupportedPlatformsCall ==
    /\ svPc = "call"
    /\ ret' = SupportedPlatforms(v)
    /\ svPc' = "done"
    /\ UNCHANGED <<p, supported, result, outcome, err, rejected, base, add, drop, out, adPc, v>>

NextVersion == SupportedPlatformsCall

SpecVersion == InitVersion /\ [][NextVersion]_vars

----------------------------------------------------------------------------
(* Vocabulary of the properties, stated on the raw tokens and lists *)

\* the (OS, Arch) identity of a platform
Id(platform) == <<platform.OS, platform.Arch>>

Ids(list) == {Id(list[i]) : i \in DOMAIN list}

UniqueIds(list) == \A i, j \in DOMAIN list : Id(list[i]) = Id(list[j]) => i = j

\* a token of the OS or Arch list that asks to exclude the name
ExcludesName(list, name) == \E i \in DOMAIN list : list[i] = bang \o name

\* a token of the OS or Arch list that asks to include the name
IncludesName(list, name) ==
    \E i \in DOMAIN list : list[i] = name /\ (name = <<>> \/ name[1] # "!")

HasNameInclude(list) == \E i \in DOMAIN list : list[i] = <<>> \/ list[i][1] # "!"

\* a pair of the OSArch list that asks to exclude the platform
ExcludesPair(list, platform) ==
    \E i \in DOMAIN list :
        list[i].OS = bang \o platform.OS /\ list[i].Arch = platform.Arch

HasPairInclude(list) ==
    \E i \in DOMAIN list : list[i].OS = <<>> \/ list[i].OS[1] # "!"

\* a platform some exclude of the request removes
Excluded(f, platform) ==
    \/ ExcludesName(f.OS, platform.OS)
    \/ ExcludesName(f.Arch, platform.Arch)
    \/ ExcludesPair(f.OSArch, platform)

\* a list of tokens with its include tokens taken out
OnlyExcludes(list) ==
    LET negated(t) == t # <<>> /\ t[1] = "!"
    IN  SelectSeq(list, negated)

PlatformsDone == outcome = "ok"

----------------------------------------------------------------------------
(* Properties of PlatformFlag.Platforms, under Spec *)

\* C1: with the OS, Arch and OSArch lists all empty, Platforms returns exactly
\* the Default platforms of the snapshot, by (OS, Arch) identity.
C1_NoFiltersReturnsDefaults ==
    (PlatformsDone /\ p = EmptyFlag /\ UniqueIds(supported)) =>
        Ids(result) = {Id(supported[i]) : i \in {j \in DOMAIN supported : supported[j].Default}}

\* C1 happens: no filters, a snapshot with a platform that is a default and one
\* that is not, and the call has returned.
C1_Witness ==
    /\ PlatformsDone
    /\ p = EmptyFlag
    /\ \E i, j \in DOMAIN supported : supported[i].Default /\ ~supported[j].Default
    /\ result # <<>>

\* C2: with a pair include present, the OS-include and Arch-include tokens do
\* not matter: the request returns the platforms that the same request without
\* any OS-include or Arch-include token returns.
C2_PairIncludeIgnoresSingleIncludes ==
    (PlatformsDone /\ HasPairInclude(p.OSArch)) =>
        \A r \in PlatformsResults(
                     [p EXCEPT !.OS = OnlyExcludes(p.OS), !.Arch = OnlyExcludes(p.Arch)],
                     supported) :
            Ids(r) = Ids(result)

\* C2 happens: a pair include next to an OS include and an Arch include that
\* both miss a returned platform.
C2_Witness ==
    /\ PlatformsDone
    /\ HasPairInclude(p.OSArch)
    /\ HasNameInclude(p.OS)
    /\ HasNameInclude(p.Arch)
    /\ \E i \in DOMAIN result :
           /\ ~IncludesName(p.OS, result[i].OS)
           /\ ~IncludesName(p.Arch, result[i].Arch)

\* C3: no returned platform has its OS excluded, its Arch excluded or its pair
\* excluded, whichever include branch produced the candidates.
C3_NoExcludedPlatformReturned ==
    PlatformsDone => \A i \in DOMAIN result : ~Excluded(p, result[i])

\* C3 happens: an OS exclude, an Arch exclude and a pair exclude that each hit
\* a Default platform of the snapshot, and something is still returned.
C3_Witness ==
    /\ PlatformsDone
    /\ result # <<>>
    /\ \E i, j, k \in DOMAIN supported :
           /\ supported[i].Default /\ ExcludesName(p.OS, supported[i].OS)
           /\ supported[j].Default /\ ExcludesName(p.Arch, supported[j].Arch)
           /\ supported[k].Default /\ ExcludesPair(p.OSArch, supported[k])

\* C6 (as claimed): when no Set call returned an error, Platforms does not panic.
C6_AcceptedTokensNeverPanic ==
    ~rejected => outcome # "panic"

\* C7 (as claimed): a Set call that returns the validation error leaves the
\* OS/Arch pair list as it was.
C7_FailedSetLeavesPairList ==
    [][err' = "error" => p'.OSArch = p.OSArch]_vars

\* a pair whose Arch part starts with the negation marker and whose OS part
\* does not, such as linux/!amd64
ArchNegated(pair) ==
    /\ pair.Arch # <<>> /\ pair.Arch[1] = "!"
    /\ pair.OS # <<>> /\ pair.OS[1] # "!"

\* the request without its Arch-negated pairs
WithoutArchNegated(f) ==
    LET plain(pair) == ~ArchNegated(pair)
    IN  [f EXCEPT !.OSArch = SelectSeq(f.OSArch, plain)]

\* no platform of the snapshot has an Arch that starts with the negation marker
PlainSnapshot(snapshot) ==
    \A i \in DOMAIN snapshot : snapshot[i].Arch = <<>> \/ snapshot[i].Arch[1] # "!"

\* C8 (as claimed): a pair token with an Arch-side negation has no effect: the
\* request returns the platforms that the request without the token returns.
C8_ArchNegationHasNoEffect ==
    (PlatformsDone /\ \E i \in DOMAIN p.OSArch : ArchNegated(p.OSArch[i])) =>
        \A r \in PlatformsResults(WithoutArchNegated(p), supported) :
            Ids(r) = Ids(result)

\* C8 (amended): the token is not an exclusion but a pair include that matches
\* no platform: next to another pair include it changes nothing, and without
\* one it makes the result empty.
C8_ArchNegationIsPairInclude ==
    (/\ PlatformsDone
     /\ PlainSnapshot(supported)
     /\ \E i \in DOMAIN p.OSArch : ArchNegated(p.OSArch[i])) =>
        IF HasPairInclude(WithoutArchNegated(p).OSArch)
        THEN \A r \in PlatformsResults(WithoutArchNegated(p), supported) :
                 Ids(r) = Ids(result)
        ELSE result = <<>>

\* C8 happens: linux/!amd64 is the only pair of a request that would return
\* platforms without it, and the call has returned.
C8_Witness ==
    /\ PlatformsDone
    /\ \E i \in DOMAIN p.OSArch : ArchNegated(p.OSArch[i])
    /\ ~HasPairInclude(WithoutArchNegated(p).OSArch)
    /\ \E r \in PlatformsResults(WithoutArchNegated(p), supported) : r # <<>>

----------------------------------------------------------------------------
(* Properties of addDrop, under SpecAddDrop *)

\* C9: addDrop returns a list without two entries of one identity, whose
\* identities are those of base and add that are not in drop, and an identity of
\* both base and add carries the Default flag of its (last) add entry.
C9_AddDropResult ==
    adPc = "done" =>
        /\ UniqueIds(out)
        /\ Ids(out) = (Ids(base) \cup Ids(add)) \ Ids(drop)
        /\ \A i \in DOMAIN out :
               (Id(out[i]) \in Ids(base) /\ Id(out[i]) \in Ids(add)) =>
                   \E j \in DOMAIN add :
                       /\ Id(add[j]) = Id(out[i])
                       /\ \A k \in DOMAIN add : Id(add[k]) = Id(out[i]) => k <= j
                       /\ out[i].Default = add[j].Default

\* C9 happens: an identity of base and add with different Default flags is
\* returned, and another identity is dropped.
C9_Witness ==
    /\ adPc = "done"
    /\ \E i \in DOMAIN base, j \in DOMAIN add, k \in DOMAIN out :
           /\ Id(base[i]) = Id(add[j])
           /\ base[i].Default # add[j].Default
           /\ Id(out[k]) = Id(add[j])
    /\ \E i \in DOMAIN base, j \in DOMAIN drop : Id(base[i]) = Id(drop[j])

----------------------------------------------------------------------------
(* Properties of SupportedPlatforms, under SpecVersion *)

\* the version string is "go" followed by a dotted numeric version
DottedAfterGo ==
    /\ HasPrefix(v, go)
    /\ LET parts == Split(SubSeq(v, 3, Len(v)), ".")
       IN  \A i \in DOMAIN parts :
               parts[i] # <<>> /\ \A c \in Range(parts[i]) : IsDigit(c)

\* the number of the first part of the dotted version after "go"
MajorOf == Atoi(Split(SubSeq(v, 3, Len(v)), ".")[1])

\* C4 (as claimed): for "go" and a dotted numeric version at or above 1.0, some
\* range of the ladder matches: the return after the loop is not reached.
C4_LadderExhaustive ==
    (svPc = "done" /\ DottedAfterGo /\ MajorOf >= 1) => ret.site # 274

\* C5 (as claimed): go0.9 and nonsense both get the newest snapshot.
C5_BothGetLatest ==
    (svPc = "done" /\ v \in {go \o <<"0",".","9">>, nonsense}) =>
        Range(ret.plat) = Range(PlatformsLatest)

\* C5 (amended): nonsense gets the newest snapshot; go0.9 satisfies "<= 1.0"
\* and gets the oldest one, Platforms_1_0.
C5_Go09GetsOldestNonsenseLatest ==
    svPc = "done" =>
        /\ v = nonsense => Range(ret.plat) = Range(PlatformsLatest)
        /\ v = go \o <<"0",".","9">> =>
               Range(ret.plat) = Range(Platforms_1_0) /\ ret.site = 269

\* C5 happens: SupportedPlatforms has returned for go0.9.
C5_Witness ==
    svPc = "done" /\ v = go \o <<"0",".","9">> /\ ret.plat # <<>>

====
